---- MODULE Spec2Model ----
(***************************************************************************)
(* Atlas agent backend: the four tools of agent_logic.py, the ReAct        *)
(* executor built by create_trip_planner_agent (langchain AgentExecutor    *)
(* with its defaults) and the two HTTP handlers of main.py.                *)
(*                                                                         *)
(* Text is modelled as a sequence of lines, a line as a sequence of string *)
(* fragments (an f-string's literal parts and its formatted values).       *)
(* A Python call is modelled by its outcome: a record that either returns  *)
(* a text or raises an exception of a named class.                         *)
(***************************************************************************)
EXTENDS Integers, Sequences, FiniteSets, TLC

VARIABLES
    env,        \* credentials present in the environment (.env / os.environ)
    proc,       \* "boot" | "up" | "crashed": the server process
    bootFault,  \* exception class that ended the import of agent_logic, or ""
    pc,         \* pc[r]: position of POST /plan-trip request r
    task,       \* task[r]: the rendered master_prompt of request r
    steps,      \* steps[r]: intermediate_steps of r's invoke (trace steps)
    iterations, \* iterations[r]: the executor's iteration counter
    pending,    \* pending[r]: the AgentAction (tool, tool_input) waiting to be executed
    modelCalls, \* modelCalls[r]: completions requested during r
    toolCalls,  \* toolCalls[r]: tool functions run during r
    finals,     \* finals[r]: texts of the Final Answer completions seen by r
    first,      \* first[r]: shape of the first completion of r's run
    invoked,    \* invoked[r]: how trip_planner_agent.invoke ended for r
    shared,     \* mutable state held by the trip_planner_agent singleton
    response,   \* response[r]: what the HTTP layer sends back for r
    loopOwner,  \* 0 when the event loop thread is free, r while plan_trip(r) runs on it
    getPc,      \* position of the current GET / probe
    probes,     \* GET / probes answered so far
    call,       \* the last direct tool invocation (tool, argument, provider outcome)
    result      \* its outcome

vars == <<env, proc, bootFault, pc, task, steps, iterations, pending, modelCalls,
          toolCalls, finals, first, invoked, shared, response, loopOwner, getPc, probes,
          call, result>>

(***************************************************************************)
(* Bounds of the model                                                     *)
(***************************************************************************)
NReq == 2
MaxProbes == 1
CountCap == 2

\* AgentExecutor's default max_iterations
MaxIterations == 15

Reqs == 1..NReq

(***************************************************************************)
(* Python exception classes that occur, with their base class              *)
(***************************************************************************)
BaseOf(c) ==
    CASE c = "Exception" -> "BaseException"
      [] c = "ValueError" -> "Exception"
      [] c = "LookupError" -> "Exception"
      [] c = "KeyError" -> "LookupError"
      [] c = "IndexError" -> "LookupError"
      [] c = "TypeError" -> "Exception"
      [] c = "AttributeError" -> "Exception"
      [] c = "ImportError" -> "Exception"
      [] c = "OSError" -> "Exception"
      [] c = "JSONDecodeError" -> "ValueError"
      [] c = "OutputParserException" -> "ValueError"
      [] c = "ValidationError" -> "ValueError"
      [] c = "RequestException" -> "OSError"
      [] c = "ConnectionError" -> "RequestException"
      [] c = "HTTPError" -> "RequestException"
      [] c = "RequestsJSONDecodeError" -> "RequestException"
      [] c = "HttpError" -> "Exception"
      [] c = "GroqError" -> "Exception"
      [] c = "APIError" -> "GroqError"
      [] OTHER -> "object"

RECURSIVE IsInstance(_, _)
IsInstance(c, k) ==
    IF c = k THEN TRUE
    ELSE IF c = "object" \/ c = "BaseException" THEN FALSE
    ELSE IsInstance(BaseOf(c), k)

Return(text, http) == [kind |-> "return", exc |-> "", text |-> text, http |-> http]
Raise(exc, http) == [kind |-> "raise", exc |-> exc, text |-> <<>>, http |-> http]
Msg(line) == <<line>>

(***************************************************************************)
(* JSON values as json.loads / response.json() build them, and the Python  *)
(* operations the tools apply to them                                      *)
(***************************************************************************)
Null == [t |-> "null", keys |-> {}, v |-> <<>>]
Num(n) == [t |-> "num", keys |-> {}, v |-> n]
Str(s) == [t |-> "str", keys |-> {}, v |-> s]
Lst(q) == [t |-> "list", keys |-> {}, v |-> q]
Obj(rec) == [t |-> "obj", keys |-> DOMAIN rec, v |-> rec]
EmptyObj == [t |-> "obj", keys |-> {}, v |-> <<>>]

Ok(val) == [ok |-> TRUE, exc |-> "", val |-> val]
Err(exc) == [ok |-> FALSE, exc |-> exc, val |-> Null]

\* bool(x)
Truthy(j) ==
    CASE j.t = "null" -> FALSE
      [] j.t = "num" -> j.v # 0
      [] j.t = "str" -> j.v # ""
      [] j.t = "list" -> Len(j.v) > 0
      [] j.t = "obj" -> j.keys # {}

\* x[key] with a string key
Subscript(j, key) ==
    IF j.t = "obj"
    THEN IF key \in j.keys THEN Ok(j.v[key]) ELSE Err("KeyError")
    ELSE Err("TypeError")

\* x.get(key, default): only a dict has the method
Get(j, key, default) ==
    IF j.t = "obj"
    THEN Ok(IF key \in j.keys THEN j.v[key] ELSE default)
    ELSE Err("AttributeError")

\* x[0]
First(j) ==
    CASE j.t = "list" -> IF Len(j.v) > 0 THEN Ok(j.v[1]) ELSE Err("IndexError")
      [] j.t = "str" -> IF j.v # "" THEN Ok(Str("?")) ELSE Err("IndexError")
      [] j.t = "obj" -> Err("KeyError")
      [] OTHER -> Err("TypeError")

\* x[:3]
Top3(j) ==
    CASE j.t = "list" -> Ok(Lst(SubSeq(j.v, 1, IF Len(j.v) < 3 THEN Len(j.v) ELSE 3)))
      [] j.t = "str" -> Ok(Lst(<<Str("?")>>))
      [] OTHER -> Err("TypeError")

\* what an f-string shows for a value
Fmt(j) ==
    CASE j.t = "null" -> "None"
      [] j.t = "num" -> ToString(j.v)
      [] j.t = "str" -> j.v
      [] j.t = "list" -> "[...]"
      [] j.t = "obj" -> "{...}"

(***************************************************************************)
(* The JSON documents of the model: argument texts the model may write as  *)
(* Action Input and bodies the flights provider may send (F1..F4 stand for  *)
(* complete flight entries)                                                *)
(***************************************************************************)
FullFlight(airline, price, duration, stops) ==
    Obj([flights |-> Lst(<<Obj([airline |-> Str(airline)])>>), price |-> Num(price),
         duration |-> Obj([text |-> Str(duration)]), stops |-> Num(stops)])

JsonDocs == <<
    [text |-> "[\"Mumbai\", \"Goa\"]", val |-> Lst(<<Str("Mumbai"), Str("Goa")>>)],
    [text |-> "42", val |-> Num(42)],
    [text |-> "\"Goa\"", val |-> Str("Goa")],
    [text |-> "null", val |-> Null],
    [text |-> "{}", val |-> EmptyObj],
    [text |-> "{\"origin\": \"Mumbai\", \"destination\": \"Goa\", \"departure_date\": \"2025-10-15\"}",
     val |-> Obj([origin |-> Str("Mumbai"), destination |-> Str("Goa"),
                  departure_date |-> Str("2025-10-15")])],
    [text |-> "{\"origin\": \"Mumbai\", \"destination\": \"Goa\"}",
     val |-> Obj([origin |-> Str("Mumbai"), destination |-> Str("Goa")])],
    [text |-> "{\"destination\": \"Goa\", \"check_in_date\": \"2025-10-15\", \"check_out_date\": \"2025-10-18\"}",
     val |-> Obj([destination |-> Str("Goa"), check_in_date |-> Str("2025-10-15"),
                  check_out_date |-> Str("2025-10-18")])],
    [text |-> "{\"destination\": \"Goa\", \"check_in_date\": \"2025-10-15\"}",
     val |-> Obj([destination |-> Str("Goa"), check_in_date |-> Str("2025-10-15")])],
    [text |-> "[]", val |-> Lst(<<>>)],
    [text |-> "[1]", val |-> Lst(<<Num(1)>>)],
    [text |-> "{\"status\": 1}", val |-> Obj([status |-> Num(1)])],
    [text |-> "{\"data\": null}", val |-> Obj([data |-> Null])],
    [text |-> "{\"data\": 0}", val |-> Obj([data |-> Num(0)])],
    [text |-> "{\"data\": {}}", val |-> Obj([data |-> EmptyObj])],
    [text |-> "{\"data\": \"unavailable\"}", val |-> Obj([data |-> Str("unavailable")])],
    [text |-> "{\"data\": [1]}", val |-> Obj([data |-> Lst(<<Num(1)>>)])],
    [text |-> "{\"data\": {\"otherFlights\": [1]}}",
     val |-> Obj([data |-> Obj([otherFlights |-> Lst(<<Num(1)>>)])])],
    [text |-> "{\"data\": {\"topFlights\": []}}",
     val |-> Obj([data |-> Obj([topFlights |-> Lst(<<>>)])])],
    [text |-> "{\"data\": {\"topFlights\": null}}",
     val |-> Obj([data |-> Obj([topFlights |-> Null])])],
    [text |-> "{\"data\": {\"topFlights\": \"soon\"}}",
     val |-> Obj([data |-> Obj([topFlights |-> Str("soon")])])],
    [text |-> "{\"data\": {\"topFlights\": [F1]}}",
     val |-> Obj([data |-> Obj([topFlights |-> Lst(<<FullFlight("IndiGo", 90, "1 hr 20 min", 0)>>)])])],
    [text |-> "{\"data\": {\"topFlights\": [F1, {}]}}",
     val |-> Obj([data |-> Obj([topFlights |->
                Lst(<<FullFlight("IndiGo", 90, "1 hr 20 min", 0), EmptyObj>>)])])],
    [text |-> "{\"data\": {\"topFlights\": [F2, {\"flights\": [{}], \"duration\": {}}, F1]}}",
     val |-> Obj([data |-> Obj([topFlights |->
                Lst(<<FullFlight("Air India", 120, "1 hr 15 min", 0),
                      Obj([flights |-> Lst(<<EmptyObj>>), duration |-> EmptyObj]),
                      FullFlight("IndiGo", 90, "1 hr 20 min", 0)>>)])])],
    [text |-> "{\"data\": {\"topFlights\": [F1, F2, F3, F4]}}",
     val |-> Obj([data |-> Obj([topFlights |->
                Lst(<<FullFlight("IndiGo", 90, "1 hr 20 min", 0),
                      FullFlight("Air India", 120, "1 hr 15 min", 0),
                      FullFlight("Vistara", 150, "3 hr 5 min", 1),
                      FullFlight("SpiceJet", 70, "1 hr 25 min", 0)>>)])])],
    [text |-> "{\"data\": {\"topFlights\": [{\"flights\": [], \"price\": 90}]}}",
     val |-> Obj([data |-> Obj([topFlights |->
                Lst(<<Obj([flights |-> Lst(<<>>), price |-> Num(90)])>>)])])],
    [text |-> "{\"data\": {\"topFlights\": [{\"price\": 90, \"duration\": null}]}}",
     val |-> Obj([data |-> Obj([topFlights |->
                Lst(<<Obj([price |-> Num(90), duration |-> Null])>>)])])]
>>

DocTexts == {JsonDocs[i].text : i \in DOMAIN JsonDocs}

\* json.loads(text) / response.json(): JSONDecodeError on a text that is no JSON document
JsonLoads(text) ==
    IF text \in DocTexts
    THEN Ok(JsonDocs[CHOOSE i \in DOMAIN JsonDocs : JsonDocs[i].text = text].val)
    ELSE Err("JSONDecodeError")

\* Action Input texts tried with the hotel and flight tools
ArgTexts == {
    "Mumbai to Goa on 2025-10-15", "",
    "[\"Mumbai\", \"Goa\"]", "42", "\"Goa\"", "null", "{}",
    "{\"origin\": \"Mumbai\", \"destination\": \"Goa\", \"departure_date\": \"2025-10-15\"}",
    "{\"origin\": \"Mumbai\", \"destination\": \"Goa\"}",
    "{\"destination\": \"Goa\", \"check_in_date\": \"2025-10-15\", \"check_out_date\": \"2025-10-18\"}",
    "{\"destination\": \"Goa\", \"check_in_date\": \"2025-10-15\"}" }

\* response bodies of the flights provider
BodyTexts == {
    "", "<html>Bad Gateway</html>",
    "{}", "[]", "null", "[1]", "{\"status\": 1}",
    "{\"data\": null}", "{\"data\": 0}", "{\"data\": {}}", "{\"data\": \"unavailable\"}",
    "{\"data\": [1]}", "{\"data\": {\"otherFlights\": [1]}}",
    "{\"data\": {\"topFlights\": []}}", "{\"data\": {\"topFlights\": null}}",
    "{\"data\": {\"topFlights\": \"soon\"}}",
    "{\"data\": {\"topFlights\": [F1]}}",
    "{\"data\": {\"topFlights\": [F1, {}]}}",
    "{\"data\": {\"topFlights\": [F2, {\"flights\": [{}], \"duration\": {}}, F1]}}",
    "{\"data\": {\"topFlights\": [F1, F2, F3, F4]}}",
    "{\"data\": {\"topFlights\": [{\"flights\": [], \"price\": 90}]}}",
    "{\"data\": {\"topFlights\": [{\"price\": 90, \"duration\": null}]}}" }


(***************************************************************************)
(* Outcomes of the external providers                                      *)
(***************************************************************************)
Creds == {"GROQ_API_KEY", "GOOGLE_API_KEY", "GOOGLE_CSE_ID", "RAPIDAPI_KEY"}

\* what requests.get meets: no connection, an HTTP error status, or a 200 with a body
Upstreams ==
    {[net |-> "connection_error", status |-> 0, body |-> ""]}
    \cup {[net |-> "ok", status |-> s, body |-> ""] : s \in {401, 500}}
    \cup {[net |-> "ok", status |-> 200, body |-> b] : b \in BodyTexts}

\* what the Google search API does with a query
Providers == {"results", "no_results", "network_error", "provider_error"}

Queries == {"best beaches in Goa", ""}

Dates == {[weekday |-> "Sunday", month |-> "November", day |-> 1, year |-> 2026],
          [weekday |-> "Wednesday", month |-> "October", day |-> 15, year |-> 2025]}

(***************************************************************************)
(* The tools of agent_logic.py                                             *)
(***************************************************************************)
\* GoogleSearchAPIWrapper(...).run(query) with the keys os.getenv finds; no try around it
web_search(query, e, provider) ==
    IF "GOOGLE_API_KEY" \notin e \/ "GOOGLE_CSE_ID" \notin e
    THEN Raise("ValidationError", 0)
    ELSE CASE provider = "network_error" -> Raise("OSError", 1)
           [] provider = "provider_error" -> Raise("HttpError", 1)
           [] provider = "no_results" -> Return(Msg(<<"No good Google Search Result was found">>), 1)
           [] provider = "results" -> Return(Msg(<<"snippets for: ", query>>), 1)

\* strftime('%d'): two digits
Pad2(n) == IF n < 10 THEN "0" \o ToString(n) ELSE ToString(n)

get_current_date(query, today) ==
    Return(Msg(<<"Today's date is ", today.weekday, ", ", today.month, " ",
                 Pad2(today.day), ", ", ToString(today.year), ".">>), 0)

\* the try block of search_hotels
search_hotels_try(origin) ==
    LET input_dict == JsonLoads(origin) IN
    IF ~input_dict.ok THEN Raise(input_dict.exc, 0) ELSE
    LET destination == Subscript(input_dict.val, "destination") IN
    IF ~destination.ok THEN Raise(destination.exc, 0) ELSE
    LET check_in_date == Subscript(input_dict.val, "check_in_date") IN
    IF ~check_in_date.ok THEN Raise(check_in_date.exc, 0) ELSE
    LET check_out_date == Subscript(input_dict.val, "check_out_date") IN
    IF ~check_out_date.ok THEN Raise(check_out_date.exc, 0) ELSE
    Return(Msg(<<"Found 3 hotels in ", Fmt(destination.val),
                 ": 1. The Grand Hotel (8000/night, 4.5 stars), 2. City Inn (4500/night, 4.0 stars), 3. Budget Stay (2500/night, 3.5 stars).">>), 0)

\* search_hotels with the except clause left out
search_hotels_uncaught(origin) == search_hotels_try(origin)

search_hotels(origin) ==
    LET r == search_hotels_try(origin) IN
    IF r.kind = "raise" /\ IsInstance(r.exc, "Exception")
    THEN Return(Msg(<<"Error processing hotel search: ", r.exc,
                      ". Please ensure the input is a valid JSON with 'destination', 'check_in_date', and 'check_out_date' keys.">>),
                r.http)
    ELSE r

\* one line of formatted_flights
FormatFlight(flight) ==
    LET flights == Get(flight, "flights", Lst(<<EmptyObj>>)) IN
    IF ~flights.ok THEN Err(flights.exc) ELSE
    LET leg == First(flights.val) IN
    IF ~leg.ok THEN Err(leg.exc) ELSE
    LET airline == Get(leg.val, "airline", Str("N/A")) IN
    IF ~airline.ok THEN Err(airline.exc) ELSE
    LET price == Get(flight, "price", Str("N/A"))
        duration == Get(flight, "duration", EmptyObj)
    IN
    LET text == Get(duration.val, "text", Str("N/A")) IN
    IF ~text.ok THEN Err(text.exc) ELSE
    LET stops == Get(flight, "stops", Str("N/A")) IN
    Ok(<<"- Airline: ", Fmt(airline.val), ", Price: $", Fmt(price.val),
         ", Duration: ", Fmt(text.val), ", Stops: ", Fmt(stops.val)>>)

\* the for loop over topFlights[:3]: the lines, or the first exception
RECURSIVE FormatFlights(_, _, _)
FormatFlights(list, i, formatted_flights) ==
    IF i > Len(list) THEN Ok(formatted_flights)
    ELSE LET line == FormatFlight(list[i]) IN
         IF ~line.ok THEN Err(line.exc)
         ELSE FormatFlights(list, i + 1, Append(formatted_flights, line.val))

NoFlightsFound(o, d, date) ==
    Msg(<<"No flights found from ", Fmt(o), " to ", Fmt(d), " on ", Fmt(date), ".">>)

\* the try block of search_flights
search_flights_try(origin, up) ==
    LET input_dict == JsonLoads(origin) IN
    IF ~input_dict.ok THEN Raise(input_dict.exc, 0) ELSE
    LET origin_city == Subscript(input_dict.val, "origin") IN
    IF ~origin_city.ok THEN Raise(origin_city.exc, 0) ELSE
    LET destination_city == Subscript(input_dict.val, "destination") IN
    IF ~destination_city.ok THEN Raise(destination_city.exc, 0) ELSE
    LET date_val == Subscript(input_dict.val, "departure_date") IN
    IF ~date_val.ok THEN Raise(date_val.exc, 0) ELSE
    \* requests.get, raise_for_status, response.json
    IF up.net # "ok" THEN Raise("ConnectionError", 1) ELSE
    IF up.status >= 400 THEN Raise("HTTPError", 1) ELSE
    LET data == JsonLoads(up.body)
        none == Return(NoFlightsFound(origin_city.val, destination_city.val, date_val.val), 1)
    IN
    IF ~data.ok THEN Raise("RequestsJSONDecodeError", 1) ELSE
    IF ~Truthy(data.val) THEN none ELSE
    LET inner == Get(data.val, "data", Null) IN
    IF ~inner.ok THEN Raise(inner.exc, 1) ELSE
    IF ~Truthy(inner.val) THEN none ELSE
    LET topFlights == Get(inner.val, "topFlights", Null) IN
    IF ~topFlights.ok THEN Raise(topFlights.exc, 1) ELSE
    IF ~Truthy(topFlights.val) THEN none ELSE
    LET top == Top3(topFlights.val) IN
    IF ~top.ok THEN Raise(top.exc, 1) ELSE
    LET formatted_flights == FormatFlights(top.val.v, 1, <<>>) IN
    IF ~formatted_flights.ok THEN Raise(formatted_flights.exc, 1) ELSE
    IF Len(formatted_flights.val) = 0
    THEN Return(Msg(<<"Could not parse flight information from ", Fmt(origin_city.val),
                      " to ", Fmt(destination_city.val), ".">>), 1)
    ELSE Return(<<<<"Here are the top flight options:">>>> \o formatted_flights.val, 1)

search_flights(origin, up) ==
    LET r == search_flights_try(origin, up) IN
    IF r.kind = "raise" /\ IsInstance(r.exc, "RequestException")
    THEN Return(Msg(<<"API request failed: ", r.exc>>), r.http)
    ELSE IF r.kind = "raise" /\ IsInstance(r.exc, "Exception")
    THEN Return(Msg(<<"An error occurred while searching for flights: ", r.exc,
                      ". Please ensure the input is a valid JSON and the date is in YYYY-MM-DD format.">>),
                r.http)
    ELSE r

\* tools = [web_search, search_hotels, search_flights, get_current_date]
tools == <<"web_search", "search_hotels", "search_flights", "get_current_date">>
ToolNames == {tools[i] : i \in DOMAIN tools}


\* BaseTool.run of the named tool: the function's outcome, exceptions included
InvokeTool(name, arg, e, x) ==
    CASE name = "web_search" -> web_search(arg, e, x.provider)
      [] name = "search_hotels" -> search_hotels(arg)
      [] name = "search_flights" -> search_flights(arg, x.up)
      [] name = "get_current_date" -> get_current_date(arg, x.today)

NoUp == [net |-> "none", status |-> 0, body |-> ""]
NoDate == [weekday |-> "", month |-> "", day |-> 0, year |-> 0]
NoCall == [tool |-> "", arg |-> "", up |-> NoUp, provider |-> "", today |-> NoDate]
NoResult == [kind |-> "", exc |-> "", text |-> <<>>, http |-> 0]

\* the provider cannot authenticate a request that carries no X-RapidAPI-Key header
FlightsUpstreams(e) ==
    {up \in Upstreams : ("RAPIDAPI_KEY" \notin e /\ up.net = "ok") => up.status = 401}

(***************************************************************************)
(* Direct tool invocations                                                 *)
(***************************************************************************)
Call_web_search(query, provider) ==
    /\ call' = [NoCall EXCEPT !.tool = "web_search", !.arg = query, !.provider = provider]
    /\ result' = web_search(query, env, provider)
    /\ UNCHANGED <<env, proc, bootFault, pc, task, steps, iterations, pending, modelCalls,
                   toolCalls, finals, first, invoked, shared, response, loopOwner, getPc, probes>>

Call_get_current_date(query, today) ==
    /\ call' = [NoCall EXCEPT !.tool = "get_current_date", !.arg = query, !.today = today]
    /\ result' = get_current_date(query, today)
    /\ UNCHANGED <<env, proc, bootFault, pc, task, steps, iterations, pending, modelCalls,
                   toolCalls, finals, first, invoked, shared, response, loopOwner, getPc, probes>>

Call_search_hotels(arg) ==
    /\ call' = [NoCall EXCEPT !.tool = "search_hotels", !.arg = arg]
    /\ result' = search_hotels(arg)
    /\ UNCHANGED <<env, proc, bootFault, pc, task, steps, iterations, pending, modelCalls,
                   toolCalls, finals, first, invoked, shared, response, loopOwner, getPc, probes>>

Call_search_flights(arg, up) ==
    /\ call' = [NoCall EXCEPT !.tool = "search_flights", !.arg = arg, !.up = up]
    /\ result' = search_flights(arg, up)
    /\ UNCHANGED <<env, proc, bootFault, pc, task, steps, iterations, pending, modelCalls,
                   toolCalls, finals, first, invoked, shared, response, loopOwner, getPc, probes>>

(***************************************************************************)
(* Initial state: the process before agent_logic is imported               *)
(***************************************************************************)
\* environments tried: every credential set, one missing, or none set
Envs == {Creds} \cup {Creds \ {k} : k \in Creds} \cup {{}}

NoResponse == [status |-> 0, key |-> "", text |-> <<>>]
NoAction == [tool |-> "", tool_input |-> ""]
NotInvoked == [ended |-> "", output |-> <<>>]

Init ==
    /\ env \in Envs
    /\ proc = "boot"
    /\ bootFault = ""
    /\ pc = [r \in Reqs |-> "idle"]
    /\ task = [r \in Reqs |-> <<>>]
    /\ steps = [r \in Reqs |-> <<>>]
    /\ iterations = [r \in Reqs |-> 0]
    /\ pending = [r \in Reqs |-> NoAction]
    /\ modelCalls = [r \in Reqs |-> 0]
    /\ toolCalls = [r \in Reqs |-> 0]
    /\ finals = [r \in Reqs |-> <<>>]
    /\ first = [r \in Reqs |-> ""]
    /\ invoked = [r \in Reqs |-> NotInvoked]
    /\ shared = <<>>
    /\ response = [r \in Reqs |-> NoResponse]
    /\ loopOwner = 0
    /\ getPc = "idle"
    /\ probes = 0
    /\ call = NoCall
    /\ result = NoResult

NextTools ==
    \/ \E q \in Queries, p \in Providers : Call_web_search(q, p)
    \/ \E q \in Queries, d \in Dates : Call_get_current_date(q, d)
    \/ \E a \in ArgTexts : Call_search_hotels(a)
    \/ \E a \in ArgTexts : \E up \in FlightsUpstreams(env) : Call_search_flights(a, up)

SpecTools == Init /\ [][NextTools]_vars


(***************************************************************************)
(* Properties of the tools, checked under SpecTools                        *)
(***************************************************************************)
HotelKeys == {"destination", "check_in_date", "check_out_date"}
FlightKeys == {"origin", "destination", "departure_date"}
RequiredKeys(tool) == IF tool = "search_hotels" THEN HotelKeys ELSE FlightKeys

\* not JSON, JSON that is no object, or an object that misses a required key
Malformed(tool, arg) ==
    LET p == JsonLoads(arg) IN
    \/ ~p.ok
    \/ p.val.t # "obj"
    \/ ~(RequiredKeys(tool) \subseteq p.val.keys)

IsErrorText(text) ==
    /\ Len(text) = 1
    /\ Len(text[1]) >= 2
    /\ text[1][1] \in {"Error processing hotel search: ",
                       "An error occurred while searching for flights: "}

Answered200 == call.up.net = "ok" /\ call.up.status = 200

\* C2: every tool of the registry, whatever the argument and whatever its provider
\* does (success, network error, provider error, missing credentials), returns a
\* text and never raises.
C2_ToolsNeverRaise ==
    call.tool \in ToolNames => (result.kind = "return" /\ Len(result.text) > 0)

\* C5: for every malformed argument (not JSON, JSON that is no object, an object
\* missing a required key) search_hotels and search_flights return a descriptive
\* error text and never raise, and search_flights makes no upstream HTTP call.
C5_MalformedArgumentGivesErrorText ==
    (call.tool \in {"search_hotels", "search_flights"} /\ Malformed(call.tool, call.arg))
        => /\ result.kind = "return"
           /\ IsErrorText(result.text)
           /\ result.http = 0

C5_Witness ==
    /\ call.tool = "search_flights"
    /\ call.arg = "{\"origin\": \"Mumbai\", \"destination\": \"Goa\"}"
    /\ Answered200
    /\ result.kind = "return"
    /\ result.text[1][2] = "KeyError"

\* data.topFlights of a decoded body, when the body holds one that is neither
\* null nor empty
HasTopFlights(j) ==
    /\ j.t = "obj"
    /\ "data" \in j.keys
    /\ j.v["data"].t = "obj"
    /\ "topFlights" \in j.v["data"].keys
    /\ Truthy(j.v["data"].v["topFlights"])

LacksTopFlights(body) ==
    LET p == JsonLoads(body) IN p.ok /\ ~HasTopFlights(p.val)

ArgField(arg, key) == JsonLoads(arg).val.v[key]

\* C6: for every well-formed argument and every decoded upstream response that
\* lacks data.topFlights, search_flights returns the "No flights found from
\* <origin> to <destination> on <date>." message and nothing else.
C6_NoFlightsFoundWhenTopFlightsAbsent ==
    (/\ call.tool = "search_flights"
     /\ ~Malformed("search_flights", call.arg)
     /\ Answered200
     /\ LacksTopFlights(call.up.body))
        => /\ result.kind = "return"
           /\ result.text = NoFlightsFound(ArgField(call.arg, "origin"),
                                           ArgField(call.arg, "destination"),
                                           ArgField(call.arg, "departure_date"))

\* the value at a path of member names and list positions, or N/A when any part
\* of the path is absent
RECURSIVE Field(_, _)
Field(j, path) ==
    IF Len(path) = 0 THEN Fmt(j)
    ELSE LET k == Head(path) IN
         IF k = "[0]"
         THEN IF j.t = "list" /\ Len(j.v) > 0 THEN Field(j.v[1], Tail(path)) ELSE "N/A"
         ELSE IF j.t = "obj" /\ k \in j.keys THEN Field(j.v[k], Tail(path)) ELSE "N/A"

ExpectedLine(flight) ==
    <<"- Airline: ", Field(flight, <<"flights", "[0]", "airline">>),
      ", Price: $", Field(flight, <<"price">>),
      ", Duration: ", Field(flight, <<"duration", "text">>),
      ", Stops: ", Field(flight, <<"stops">>)>>

TopFlightsOf(body) == JsonLoads(body).val.v["data"].v["topFlights"]

HoldsFlightList(body) ==
    LET p == JsonLoads(body) IN
    p.ok /\ HasTopFlights(p.val) /\ TopFlightsOf(body).t = "list"

Min(a, b) == IF a < b THEN a ELSE b

\* C9: when the upstream response holds a non-empty data.topFlights list of n
\* entries, search_flights returns the header followed by exactly min(n, 3) lines,
\* one per entry for the first three entries in upstream order, each absent field
\* (airline, price, duration text, stops) shown as N/A.
C9_TopThreeFlightsFormatted ==
    (/\ call.tool = "search_flights"
     /\ ~Malformed("search_flights", call.arg)
     /\ Answered200
     /\ HoldsFlightList(call.up.body))
        => LET list == TopFlightsOf(call.up.body).v
               n == Min(Len(list), 3)
           IN /\ result.kind = "return"
              /\ Len(result.text) = 1 + n
              /\ result.text[1] = <<"Here are the top flight options:">>
              /\ \A i \in 1..n : result.text[i + 1] = ExpectedLine(list[i])


(***************************************************************************)
(* Process start: importing agent_logic builds the trip_planner_agent      *)
(***************************************************************************)
HubOutcomes == {"pulled", "unreachable"}

\* create_trip_planner_agent(): hub.pull fetches the prompt, ChatGroq builds its
\* client from GROQ_API_KEY; the exception that ends it, or "" when it returns
create_trip_planner_agent(e, hub) ==
    IF hub # "pulled" THEN "ConnectionError"
    ELSE IF "GROQ_API_KEY" \notin e THEN "GroqError"
    ELSE ""

\* trip_planner_agent = create_trip_planner_agent(), run by main.py's import
Startup(hub) ==
    /\ proc = "boot"
    /\ bootFault' = create_trip_planner_agent(env, hub)
    /\ proc' = IF bootFault' = "" THEN "up" ELSE "crashed"
    /\ UNCHANGED <<env, pc, task, steps, iterations, pending, modelCalls, toolCalls,
                   finals, first, invoked, shared, response, loopOwner, getPc, probes,
                   call, result>>

(***************************************************************************)
(* POST /plan-trip                                                         *)
(***************************************************************************)
Trip(notes) ==
    [origin |-> Str("Mumbai"), destination |-> Str("Goa"),
     start_date |-> Str("2025-10-15"), duration_days |-> Num(3), notes |-> notes]

\* request bodies tried
RequestBodies == <<
    Obj([origin |-> Str("Mumbai"), destination |-> Str("Goa"),
         start_date |-> Str("2025-10-15"), duration_days |-> Num(3)]),
    Obj(Trip(Null)),
    Obj(Trip(Str(""))),
    Obj(Trip(Str("I like history"))),
    Obj([origin |-> Str("Mumbai"), destination |-> Str("Goa")]),
    Obj([origin |-> Str("Mumbai"), destination |-> Str("Goa"),
         start_date |-> Str("2025-10-15"), duration_days |-> Str("three")])
>>

\* UserRequest: the structural validation done before plan_trip is called
UserRequest(body) ==
    /\ body.t = "obj"
    /\ {"origin", "destination", "start_date", "duration_days"} \subseteq body.keys
    /\ body.v["origin"].t = "str"
    /\ body.v["destination"].t = "str"
    /\ body.v["start_date"].t = "str"
    /\ body.v["duration_days"].t = "num"
    /\ ("notes" \in body.keys => body.v["notes"].t \in {"str", "null"})

\* the f-string of plan_trip
master_prompt(body) ==
    LET notes == IF "notes" \in body.keys THEN body.v["notes"] ELSE Null IN
    <<"Origin: ", Fmt(body.v["origin"]), "Destination: ", Fmt(body.v["destination"]),
      "Start Date: ", Fmt(body.v["start_date"]),
      "Trip Duration: ", Fmt(body.v["duration_days"]), " days",
      "User's additional notes: ", IF Truthy(notes) THEN Fmt(notes) ELSE "None">>

\* a handler that catches ValueError only
CatchesValueError(exc) == IsInstance(exc, "ValueError")

\* except Exception: the classes the handler catches
Catches(exc) == IsInstance(exc, "Exception")

\* a handler that awaits the run and so gives the event loop back
YieldsLoop(r) == 0

\* plan_trip is a coroutine without an await: it keeps the event loop thread
\* from the call of invoke to its return
HoldsLoop(r) == r

\* what plan_trip sends once invoke has ended
Reply(ended, output) ==
    IF ended = "returned" THEN [status |-> 200, key |-> "plan", text |-> <<output>>]
    ELSE IF Catches(output)
    THEN [status |-> 200, key |-> "error", text |-> <<"An error occurred: ", output>>]
    ELSE [status |-> 500, key |-> "", text |-> <<"Internal Server Error">>]

(***************************************************************************)
(* The executor built at lines 151-157: AgentExecutor(agent, tools,        *)
(* verbose=True) with create_react_agent's ReAct output parser and the     *)
(* executor's defaults (max_iterations 15, early_stopping_method "force",  *)
(* handle_parsing_errors off, no memory)                                   *)
(***************************************************************************)
StoppedOutput == "Agent stopped due to iteration limit or time limit."

Answers == {"Day 1: arrive in Goa ...", "Day 1: Fort Aguada ..."}

\* Action Input texts the model writes inside the loop
LoopArgs == {
    "best beaches in Goa",
    "{\"origin\": \"Mumbai\", \"destination\": \"Goa\", \"departure_date\": \"2025-10-15\"}" }

\* completions of the model: an action (tool and Action Input), a final answer,
\* both at once, neither, or a failed API call
Completions ==
    {[shape |-> "action", tool |-> t, text |-> a] :
        t \in ToolNames \cup {"book_taxi"}, a \in LoopArgs}
    \cup {[shape |-> "final", tool |-> "", text |-> a] : a \in Answers}
    \cup {[shape |-> sh, tool |-> "", text |-> ""] : sh \in {"both", "neither", "api_error"}}

\* agent.plan: the model call and the ReAct parser
Plan(c) ==
    CASE c.shape = "action" -> [kind |-> "AgentAction", exc |-> ""]
      [] c.shape = "final" -> [kind |-> "AgentFinish", exc |-> ""]
      [] c.shape = "api_error" -> [kind |-> "raise", exc |-> "APIError"]
      [] OTHER -> [kind |-> "raise", exc |-> "OutputParserException"]

\* handle_parsing_errors is off: the executor re-raises a parsing error as ValueError
Rethrown(exc) == IF exc = "OutputParserException" THEN "ValueError" ELSE exc

\* an executor that goes on asking after an AgentFinish
OnFinishContinue == "continue"

\* the executor returns as soon as the agent yields an AgentFinish
OnFinish == "return"

\* a singleton that remembers the steps it has taken
KeepInMemory(kept, step) == Append(kept, step)

\* what the singleton keeps of a step once it is taken: nothing (no memory)
Keep(kept, step) == kept

Bump(n) == IF n < CountCap THEN n + 1 ELSE n

\* invoke ends for r and plan_trip returns: its locals are gone, the event loop is free
Finish(r, ended, output) ==
    /\ invoked' = [invoked EXCEPT ![r] = [ended |-> ended, output |-> <<output>>]]
    /\ response' = [response EXCEPT ![r] = Reply(ended, output)]
    /\ pc' = [pc EXCEPT ![r] = "done"]
    /\ task' = [task EXCEPT ![r] = <<>>]
    /\ steps' = [steps EXCEPT ![r] = <<>>]
    /\ iterations' = [iterations EXCEPT ![r] = 0]
    /\ pending' = [pending EXCEPT ![r] = NoAction]
    /\ loopOwner' = IF loopOwner = r THEN 0 ELSE loopOwner

\* the request is read and validated; a valid one enters plan_trip, which renders
\* the prompt and calls trip_planner_agent.invoke (requests are numbered in the
\* order the event loop takes them up; the record of an answered one is closed
\* before a later one is taken up)
PlanTripStart(r, i) ==
    /\ proc = "up"
    /\ loopOwner = 0
    /\ pc[r] = "idle"
    /\ \A q \in Reqs : q < r => pc[q] \notin {"idle", "done"}
    /\ IF ~UserRequest(RequestBodies[i])
       THEN /\ response' = [response EXCEPT ![r] =
                   [status |-> 422, key |-> "detail", text |-> <<"validation error">>]]
            /\ pc' = [pc EXCEPT ![r] = "rejected"]
            /\ UNCHANGED <<task, steps, iterations, loopOwner>>
       ELSE /\ task' = [task EXCEPT ![r] = master_prompt(RequestBodies[i])]
            /\ steps' = [steps EXCEPT ![r] = shared]
            /\ iterations' = [iterations EXCEPT ![r] = 0]
            /\ pc' = [pc EXCEPT ![r] = "model"]
            /\ loopOwner' = HoldsLoop(r)
            /\ UNCHANGED response
    /\ UNCHANGED <<env, proc, bootFault, pending, modelCalls, toolCalls, finals, first,
                   invoked, shared, getPc, probes, call, result>>

\* one pass of the loop up to the parsed completion
ModelStep(r, c) ==
    /\ pc[r] = "model"
    /\ modelCalls' = [modelCalls EXCEPT ![r] = Bump(@)]
    /\ first' = [first EXCEPT ![r] = IF @ = "" THEN c.shape ELSE @]
    /\ finals' = [finals EXCEPT ![r] =
           IF Plan(c).kind = "AgentFinish" /\ Len(@) < CountCap THEN Append(@, c.text) ELSE @]
    /\ CASE Plan(c).kind = "raise" ->
               /\ Finish(r, "raised", Rethrown(Plan(c).exc))
          [] Plan(c).kind = "AgentFinish" /\ OnFinish = "return" ->
               /\ Finish(r, "returned", c.text)
          [] Plan(c).kind = "AgentFinish" /\ OnFinish # "return" ->
               /\ UNCHANGED <<invoked, response, pc, task, steps, iterations, pending,
                              loopOwner>>
          [] Plan(c).kind = "AgentAction" ->
               /\ pending' = [pending EXCEPT ![r] = [tool |-> c.tool, tool_input |-> c.text]]
               /\ pc' = [pc EXCEPT ![r] = "tool"]
               /\ UNCHANGED <<invoked, response, task, steps, iterations, loopOwner>>
    /\ UNCHANGED <<env, proc, bootFault, toolCalls, shared, getPc, probes, call, result>>

\* provider outcomes met inside the loop
LoopOutcomes ==
    {[up |-> up, provider |-> p,
      today |-> [weekday |-> "Wednesday", month |-> "October", day |-> 15, year |-> 2025]] :
        up \in {[net |-> "ok", status |-> 401, body |-> ""],
                [net |-> "ok", status |-> 200, body |-> "{\"data\": {\"topFlights\": [F1]}}"]},
        p \in {"results", "network_error"}}

\* the rest of the pass: the tool named by the action runs and its observation
\* joins intermediate_steps; after max_iterations passes the executor stops
ToolStep(r, x) ==
    /\ pc[r] = "tool"
    /\ x.up \in FlightsUpstreams(env)
    /\ \E known \in {pending[r].tool \in ToolNames} :
       \E res \in {IF known THEN InvokeTool(pending[r].tool, pending[r].tool_input, env, x)
                   ELSE Return(Msg(<<pending[r].tool, " is not a valid tool, try one of [...]">>), 0)} :
       \E step \in {[req |-> r, n |-> iterations[r] + 1]} :
          /\ toolCalls' = [toolCalls EXCEPT ![r] = IF known THEN Bump(@) ELSE @]
          /\ IF res.kind = "raise"
             THEN /\ Finish(r, "raised", res.exc)
                  /\ UNCHANGED shared
             ELSE /\ shared' = Keep(shared, step)
                  /\ IF iterations[r] + 1 >= MaxIterations
                     THEN Finish(r, "returned", StoppedOutput)
                     ELSE /\ steps' = [steps EXCEPT ![r] = Append(@, step)]
                          /\ iterations' = [iterations EXCEPT ![r] = @ + 1]
                          /\ pending' = [pending EXCEPT ![r] = NoAction]
                          /\ pc' = [pc EXCEPT ![r] = "model"]
                          /\ UNCHANGED <<invoked, response, task, loopOwner>>
    /\ UNCHANGED <<env, proc, bootFault, modelCalls, finals, first, getPc, probes,
                   call, result>>

\* the reply of r has been sent and its connection is closed: nothing of the
\* request is kept
Close(r) ==
    /\ pc[r] = "done"
    /\ pc' = [pc EXCEPT ![r] = "closed"]
    /\ response' = [response EXCEPT ![r] = NoResponse]
    /\ invoked' = [invoked EXCEPT ![r] = NotInvoked]
    /\ modelCalls' = [modelCalls EXCEPT ![r] = 0]
    /\ toolCalls' = [toolCalls EXCEPT ![r] = 0]
    /\ finals' = [finals EXCEPT ![r] = <<>>]
    /\ first' = [first EXCEPT ![r] = ""]
    /\ UNCHANGED <<env, proc, bootFault, task, steps, iterations, pending, shared,
                   loopOwner, getPc, probes, call, result>>

(***************************************************************************)
(* GET /: read_root is a plain def, so the event loop hands it to a worker *)
(* thread and sends the reply when the thread is done                      *)
(***************************************************************************)
GetDispatch ==
    /\ proc = "up"
    /\ loopOwner = 0
    /\ getPc = "idle"
    /\ probes < MaxProbes
    /\ getPc' = "submitted"
    /\ UNCHANGED <<env, proc, bootFault, pc, task, steps, iterations, pending, modelCalls,
                   toolCalls, finals, first, invoked, shared, response, loopOwner, probes,
                   call, result>>

\* read_root(), in the worker thread
read_root ==
    /\ getPc = "submitted"
    /\ getPc' = "returned"
    /\ UNCHANGED <<env, proc, bootFault, pc, task, steps, iterations, pending, modelCalls,
                   toolCalls, finals, first, invoked, shared, response, loopOwner, probes,
                   call, result>>

GetRespond ==
    /\ loopOwner = 0
    /\ getPc = "returned"
    /\ getPc' = "idle"
    /\ probes' = probes + 1
    /\ UNCHANGED <<env, proc, bootFault, pc, task, steps, iterations, pending, modelCalls,
                   toolCalls, finals, first, invoked, shared, response, loopOwner,
                   call, result>>

Next ==
    \/ \E hub \in HubOutcomes : Startup(hub)
    \/ \E r \in Reqs, i \in DOMAIN RequestBodies : PlanTripStart(r, i)
    \/ \E r \in Reqs, c \in Completions : ModelStep(r, c)
    \/ \E r \in Reqs, x \in LoopOutcomes : ToolStep(r, x)
    \/ \E r \in Reqs : Close(r)
    \/ GetDispatch
    \/ read_root
    \/ GetRespond

Spec == Init /\ [][Next]_vars


(***************************************************************************)
(* Properties of the handlers and of the executor, checked under Spec      *)
(***************************************************************************)
Running(r) == pc[r] \in {"model", "tool"}
Ended(r) == pc[r] = "done" /\ invoked[r].ended # ""

\* C1: every validated POST /plan-trip ends with exactly one of the keys plan or
\* error: plan with the loop's output when invoke returns, error with a message
\* when invoke raises; no fault of the loop escapes plan_trip.
C1_PlanOrError ==
    \A r \in Reqs : Ended(r) =>
        /\ response[r].status = 200
        /\ \/ /\ invoked[r].ended = "returned"
              /\ response[r].key = "plan"
              /\ response[r].text = invoked[r].output
           \/ /\ invoked[r].ended = "raised"
              /\ response[r].key = "error"
              /\ response[r].text = <<"An error occurred: ">> \o invoked[r].output

C1_Witness ==
    \E r \in Reqs : /\ Ended(r)
                    /\ invoked[r] = [ended |-> "raised", output |-> <<"APIError">>]
                    /\ response[r].key = "error"

\* C3: when the model never produces a Final Answer, the run stops after a bounded
\* number of iterations and ends as an execution-limit failure surfaced to
\* plan_trip, not as a normal final answer.
C3_IterationCapIsAFailure ==
    \A r \in Reqs : (Ended(r) /\ finals[r] = <<>>) =>
        /\ invoked[r].ended = "raised"
        /\ response[r].key = "error"

\* C4: the loop stops at the first completion of Final Answer shape: it returns
\* that text and no model call and no tool invocation follows in that request; a
\* run whose first completion is a final answer makes exactly one model call and
\* no tool invocation.
C4_StopsAtFirstFinalAnswer ==
    /\ [](\A r \in Reqs :
            /\ finals[r] # <<>> =>
                  /\ Len(finals[r]) = 1
                  /\ pc[r] = "done"
                  /\ invoked[r] = [ended |-> "returned", output |-> <<finals[r][1]>>]
                  /\ response[r] = [status |-> 200, key |-> "plan", text |-> <<finals[r][1]>>]
            /\ first[r] = "final" => (modelCalls[r] = 1 /\ toolCalls[r] = 0))
    /\ [][\A r \in Reqs : finals[r] # <<>> =>
            /\ modelCalls'[r] <= modelCalls[r]
            /\ toolCalls'[r] <= toolCalls[r]
            /\ Len(finals'[r]) <= Len(finals[r])]_vars

C4_Witness ==
    \E r \in Reqs : /\ first[r] = "final"
                    /\ pc[r] = "done"
                    /\ response[r].key = "plan"
                    /\ modelCalls[r] = 1

\* C7: a missing credential never crashes the process, at startup or during a
\* request: the process starts and the missing credential shows only as a text
\* failure of the tool that needs it.
C7_MissingCredentialNeverCrashes ==
    /\ proc = "crashed" => bootFault = "ConnectionError"
    /\ \A r \in Reqs : invoked[r].ended = "raised" => invoked[r].output # <<"ValidationError">>

\* C8: the trip_planner_agent singleton holds no per-request state: the trace
\* steps of a request are its own, counted by its own iteration counter, whatever
\* ran before it, and a plan is the request's own final answer or the stop text.
C8_NoSharedRequestState ==
    /\ shared = <<>>
    /\ \A r \in Reqs :
          /\ Len(steps[r]) = iterations[r]
          /\ \A i \in DOMAIN steps[r] : steps[r][i] = [req |-> r, n |-> i]
          /\ (Ended(r) /\ response[r].key = "plan") =>
                response[r].text \in {<<StoppedOutput>>} \cup {<<finals[r][i]>> : i \in DOMAIN finals[r]}

C8_Witness ==
    /\ pc[1] = "closed"
    /\ Running(2)
    /\ Len(steps[2]) > 1

AtMostOneLoop == Cardinality({r \in Reqs : Running(r)}) <= 1

\* C10 as stated: at most one reasoning loop is in progress, and no other
\* handler, GET / included, starts or completes between the start and the
\* return of invoke.
C10_NoHandlerDuringInvoke ==
    /\ []AtMostOneLoop
    /\ [][loopOwner # 0 =>
            /\ \A q \in Reqs \ {loopOwner} : pc'[q] = pc[q]
            /\ getPc' = getPc]_vars

\* C10 amended: at most one reasoning loop is in progress, and between the start
\* and the return of invoke the event loop starts no handler and sends no reply;
\* only a read_root already handed to the worker thread may run.
C10_EventLoopBlockedDuringInvoke ==
    /\ [](AtMostOneLoop /\ \A r \in Reqs : Running(r) => loopOwner = r)
    /\ [][loopOwner # 0 =>
            /\ \A q \in Reqs \ {loopOwner} : pc'[q] = pc[q]
            /\ probes' = probes
            /\ getPc' # getPc => (getPc = "submitted" /\ getPc' = "returned")]_vars

C10_Witness ==
    /\ loopOwner # 0
    /\ iterations[loopOwner] > 0
    /\ getPc = "returned"
    /\ \E q \in Reqs : q # loopOwner /\ pc[q] = "idle"


====
